---- MODULE Spec2Model ----
(***************************************************************************)
(* The tele-consultation call session of the healthcare kiosk: one client  *)
(* (the doctor page or the patient page), its React state and refs, the    *)
(* PeerJS peer it registers with the relay, the MediaConnection handles it *)
(* places or answers, and the camera capture request.                      *)
(*                                                                         *)
(* Every handler of the component is one action.  The relay, the remote    *)
(* peer and the browser's permission prompt are the environment: their     *)
(* events are enabled whenever they can be delivered.  The model follows   *)
(* the client from mount to unmount; after unmount it follows only the     *)
(* capture request, which may still resolve (state setters of an unmounted *)
(* component do nothing, refs and toasts keep working).                    *)
(*                                                                         *)
(* A second specification, PairSpec, puts a patient client and the doctor  *)
(* client it calls side by side: the doctor's handlers run on the record   *)
(* far, and the signals between the two are delivered by steps of their    *)
(* own, fairly.                                                            *)
(***************************************************************************)
EXTENDS Integers, Sequences, FiniteSets, TLC

VARIABLES
    lifecycle,           \* "initial" | "mounted" | "unmounted"
    role,                \* "doctor" | "patient": which page this client runs
    peer,                \* useState<Peer|null>: "null" | "peer"
    requestedId,         \* the identity generated in the peer effect
    relay,               \* the registration itself: "none" | "connecting" | "open" | "errored" | "destroyed"
    peerId,              \* useState<string>('')
    isConnected,         \* useState(false)
    remotePeerIdInput,   \* useState('')
    currentCall,         \* useState<MediaConnection|null>: 0 is null, else an index of calls
    isCallActive,        \* useState(false)
    hasRemoteStream,     \* useState(false)
    hasCameraPermission, \* useState<boolean|null>: "null" | "true" | "false"
    isVideoMuted,        \* useState(false)
    isAudioMuted,        \* useState(false)
    localStreamRef,      \* useRef<MediaStream|null>: 0 is null, else the stream
    localVideoSrc,       \* localVideoRef.current.srcObject
    remoteVideoSrc,      \* remoteVideoRef.current.srcObject: 0, or the call whose stream is shown
    capture,             \* the getUserMedia request: "none" | "pending" | "granted" | "failed" | "unsupported"
    captureRequests,     \* number of getUserMedia calls issued
    videoEnabled,        \* getVideoTracks()[0].enabled
    audioEnabled,        \* getAudioTracks()[0].enabled
    tracksLive,          \* the tracks of the local stream are live (not stopped)
    calls,               \* every MediaConnection this peer created or was offered
    toasts,              \* the notices the last handler surfaced
    lastEvent,           \* the last handler that ran, and the call phase it found
    far                  \* the client at the other end, for the two-client specification

vars == << lifecycle, role, peer, requestedId, relay, peerId, isConnected,
           remotePeerIdInput, currentCall, isCallActive, hasRemoteStream,
           hasCameraPermission, isVideoMuted, isAudioMuted, localStreamRef,
           localVideoSrc, remoteVideoSrc, capture, captureRequests,
           videoEnabled, audioEnabled, tracksLive, calls, toasts, lastEvent, far >>

\* ------------------------------------------------------------------ bounds
\* MediaConnection handles one client lifetime creates or is offered.
MaxCalls == 2

\* ------------------------------------------------------------ input values
Roles == {"doctor", "patient"}

\* generateDoctorId / generatePatientId: role prefix and a random base36 suffix.
GeneratedIds(r) ==
    IF r = "doctor" THEN {"DR-K3F9ZQ1A"} ELSE {"PT-ABC12345"}

\* Identities of other participants.  A peer is registered with the relay
\* under the first, and offers come from it; nobody is registered under the
\* second.  The user types either.
KnownRemote == "DR-XYZ98765"
UnknownRemote == "DR-NOTFOUND"
RegisteredIds == {KnownRemote}
RemoteIds == {KnownRemote, UnknownRemote}

\* The one stream a capture request grants.
TheStream == 1

\* ------------------------------------------------------------ toast titles
ConnectedTitle(r) == IF r = "doctor" THEN "Patient Connected!" ELSE "Doctor Connected!"
CallingTitle(r) == IF r = "doctor" THEN "Calling Patient..." ELSE "Calling Doctor..."

\* ----------------------------------------------------------------- helpers
\* A React state setter: the new value while mounted, nothing afterwards.
setState(old, new) == IF lifecycle = "mounted" THEN new ELSE old

\* A write through a ref to a rendered element: the element is gone after unmount.
setRef(old, new) == IF lifecycle = "mounted" THEN new ELSE old

\* The call phase the page displays ("Ready" / "Connecting..." / "Connected"),
\* with the direction of the current call telling Offering from Ringing.
callPhase ==
    IF ~isCallActive THEN "Idle"
    ELSE IF hasRemoteStream THEN "Active"
    ELSE IF currentCall # 0 /\ calls[currentCall].dir = "incoming" THEN "Ringing"
    ELSE "Offering"

\* What lastEvent records of a handler run: its name, the call phase it
\* found, and whether the call it is about was the current one.
Event(name, h) ==
    [name |-> name, phase |-> callPhase, current |-> (h # 0 /\ h = currentCall)]

\* A handle the transport can still deliver events on: not closed, its
\* handlers registered (it was placed or answered), and a remote end exists.
\* Per handle the order is stream(s), then error or close; a close may still
\* follow an error.
Deliverable(h) == calls[h].open /\ calls[h].handlers /\ calls[h].routed
Flowing(h) == Deliverable(h) /\ ~calls[h].errored

\* The client at the other end of the calls, running the same page code:
\* its session state, its end of each connection (indexed like calls), the
\* signals in flight to it, and its last handler.  It is registered, has its
\* camera, and is idle.
FarInit ==
    [ currentCall |-> 0, isCallActive |-> FALSE, hasRemoteStream |-> FALSE,
      remoteVideoSrc |-> 0, localStream |-> TheStream,
      calls |-> [h \in 1..MaxCalls |->
                   [open |-> FALSE, handlers |-> FALSE, closeCalls |-> 0]],
      inbox |-> {}, last |-> "init" ]

Init ==
    /\ far = FarInit
    /\ lifecycle = "initial"
    /\ role \in Roles
    /\ peer = "null"
    /\ requestedId = ""
    /\ relay = "none"
    /\ peerId = ""
    /\ isConnected = FALSE
    /\ remotePeerIdInput = ""
    /\ currentCall = 0
    /\ isCallActive = FALSE
    /\ hasRemoteStream = FALSE
    /\ hasCameraPermission = "null"
    /\ isVideoMuted = FALSE
    /\ isAudioMuted = FALSE
    /\ localStreamRef = 0
    /\ localVideoSrc = 0
    /\ remoteVideoSrc = 0
    /\ capture = "none"
    /\ captureRequests = 0
    /\ videoEnabled = TRUE
    /\ audioEnabled = TRUE
    /\ tracksLive = FALSE
    /\ calls = << >>
    /\ toasts = << >>
    /\ lastEvent = [name |-> "init", phase |-> "Idle", current |-> FALSE]

\* The two mount effects: create the peer under a generated identity and
\* register its handlers; ask for the camera unless the browser has none.
Mount(id, supported) ==
    /\ lifecycle = "initial"
    /\ id \in GeneratedIds(role)
    /\ lifecycle' = "mounted"
    /\ requestedId' = id
    /\ peer' = "peer"
    /\ relay' = "connecting"
    /\ IF supported
         THEN /\ capture' = "pending"
              /\ captureRequests' = captureRequests + 1
              /\ hasCameraPermission' = hasCameraPermission
              /\ toasts' = << >>
         ELSE /\ capture' = "unsupported"
              /\ captureRequests' = captureRequests
              /\ hasCameraPermission' = "false"
              /\ toasts' = << "Unsupported Browser" >>
    /\ lastEvent' = Event("mount", 0)
    /\ UNCHANGED << role, peerId, isConnected, remotePeerIdInput, currentCall,
                    isCallActive, hasRemoteStream, isVideoMuted, isAudioMuted,
                    localStreamRef, localVideoSrc, remoteVideoSrc, videoEnabled,
                    audioEnabled, tracksLive, calls >>

\* ----------------------------------------------------- camera permission
\* getUserMedia resolves: the stream is kept in the ref and shown in the
\* local preview.  The ref is written even when the component is gone.
CameraGranted ==
    /\ capture = "pending"
    /\ capture' = "granted"
    /\ hasCameraPermission' = setState(hasCameraPermission, "true")
    /\ localStreamRef' = TheStream
    /\ tracksLive' = TRUE
    /\ localVideoSrc' = setRef(localVideoSrc, TheStream)
    /\ toasts' = << "Camera Ready" >>
    /\ lastEvent' = Event("cameraGranted", 0)
    /\ UNCHANGED << lifecycle, role, peer, requestedId, relay, peerId, isConnected,
                    remotePeerIdInput, currentCall, isCallActive, hasRemoteStream,
                    isVideoMuted, isAudioMuted, remoteVideoSrc, captureRequests,
                    videoEnabled, audioEnabled, calls >>

\* CameraDenied with the permission status left as it was.
CameraDenied_NoFlag ==
    /\ capture = "pending"
    /\ capture' = "failed"
    /\ toasts' = << "Camera Access Denied" >>
    /\ lastEvent' = Event("cameraDenied", 0)
    /\ UNCHANGED << lifecycle, role, peer, requestedId, relay, peerId, isConnected,
                    remotePeerIdInput, currentCall, isCallActive, hasRemoteStream,
                    isVideoMuted, isAudioMuted, localStreamRef, localVideoSrc,
                    remoteVideoSrc, captureRequests, videoEnabled, audioEnabled,
                    tracksLive, calls, hasCameraPermission >>

\* CameraDenied that asks for the camera again.
CameraDenied_Retry ==
    /\ capture = "pending"
    /\ capture' = "pending"
    /\ captureRequests' = captureRequests + 1
    /\ hasCameraPermission' = setState(hasCameraPermission, "false")
    /\ toasts' = << "Camera Access Denied" >>
    /\ lastEvent' = Event("cameraDenied", 0)
    /\ UNCHANGED << lifecycle, role, peer, requestedId, relay, peerId, isConnected,
                    remotePeerIdInput, currentCall, isCallActive, hasRemoteStream,
                    isVideoMuted, isAudioMuted, localStreamRef, localVideoSrc,
                    remoteVideoSrc, videoEnabled, audioEnabled, tracksLive, calls >>

\* getUserMedia rejects.
CameraDenied ==
    /\ capture = "pending"
    /\ capture' = "failed"
    /\ hasCameraPermission' = setState(hasCameraPermission, "false")
    /\ toasts' = << "Camera Access Denied" >>
    /\ lastEvent' = Event("cameraDenied", 0)
    /\ UNCHANGED << lifecycle, role, peer, requestedId, relay, peerId, isConnected,
                    remotePeerIdInput, currentCall, isCallActive, hasRemoteStream,
                    isVideoMuted, isAudioMuted, localStreamRef, localVideoSrc,
                    remoteVideoSrc, captureRequests, videoEnabled, audioEnabled,
                    tracksLive, calls >>

\* ------------------------------------------------------------- peer events
\* PeerOpen that exposes an identity other than the requested one.
PeerOpen_OtherId ==
    /\ lifecycle = "mounted"
    /\ relay = "connecting"
    /\ relay' = "open"
    /\ peerId' = KnownRemote
    /\ isConnected' = TRUE
    /\ toasts' = << "Connected to Server" >>
    /\ lastEvent' = Event("peerOpen", 0)
    /\ UNCHANGED << lifecycle, role, peer, requestedId, remotePeerIdInput, currentCall,
                    isCallActive, hasRemoteStream, hasCameraPermission, isVideoMuted,
                    isAudioMuted, localStreamRef, localVideoSrc, remoteVideoSrc,
                    capture, captureRequests, videoEnabled, audioEnabled, tracksLive,
                    calls >>

\* PeerOpen with the registration flag left as it was.
PeerOpen_NoFlag ==
    /\ lifecycle = "mounted"
    /\ relay = "connecting"
    /\ relay' = "open"
    /\ peerId' = requestedId
    /\ toasts' = << "Connected to Server" >>
    /\ lastEvent' = Event("peerOpen", 0)
    /\ UNCHANGED << lifecycle, role, peer, requestedId, remotePeerIdInput, currentCall,
                    isCallActive, hasRemoteStream, hasCameraPermission, isVideoMuted,
                    isAudioMuted, localStreamRef, localVideoSrc, remoteVideoSrc,
                    capture, captureRequests, videoEnabled, audioEnabled, tracksLive,
                    calls, isConnected >>

\* peer.on('open'): the relay confirms the registration.
PeerOpen ==
    /\ lifecycle = "mounted"
    /\ relay = "connecting"
    /\ relay' = "open"
    /\ peerId' = requestedId
    /\ isConnected' = TRUE
    /\ toasts' = << "Connected to Server" >>
    /\ lastEvent' = Event("peerOpen", 0)
    /\ UNCHANGED << lifecycle, role, peer, requestedId, remotePeerIdInput, currentCall,
                    isCallActive, hasRemoteStream, hasCameraPermission, isVideoMuted,
                    isAudioMuted, localStreamRef, localVideoSrc, remoteVideoSrc,
                    capture, captureRequests, videoEnabled, audioEnabled, tracksLive,
                    calls >>

\* What the peer 'error' handler does, whatever the error: a notice.
peerErrorHandler ==
    /\ toasts' = << "Connection Error" >>
    /\ UNCHANGED << lifecycle, role, peer, requestedId, peerId, isConnected,
                    remotePeerIdInput, currentCall, isCallActive, hasRemoteStream,
                    hasCameraPermission, isVideoMuted, isAudioMuted, localStreamRef,
                    localVideoSrc, remoteVideoSrc, capture, captureRequests,
                    videoEnabled, audioEnabled, tracksLive, calls >>

\* peer.on('error') for an error of the relay connection (network, server,
\* identity taken): the registration is lost.
PeerErrorFatal ==
    /\ lifecycle = "mounted"
    /\ relay \in {"connecting", "open"}
    /\ relay' = "errored"
    /\ lastEvent' = Event("peerErrorFatal", 0)
    /\ peerErrorHandler

\* peer.on('error') for an offer the relay could not route (nobody is
\* registered under the identity called): reported on the peer, not on
\* the call; the registration is unaffected.
PeerErrorUnavailable(h) ==
    /\ lifecycle = "mounted"
    /\ relay = "open"
    /\ h \in 1..Len(calls)
    /\ calls[h].dir = "outgoing"
    /\ calls[h].open
    /\ calls[h].peer \notin RegisteredIds
    /\ relay' = relay
    /\ lastEvent' = Event("peerErrorUnavailable", h)
    /\ peerErrorHandler

\* A new MediaConnection record.
NewCall(dir, from, answered, routed) ==
    [ dir |-> dir, peer |-> from, open |-> TRUE, handlers |-> answered,
      routed |-> routed, localStream |-> IF answered THEN localStreamRef ELSE 0,
      closeCalls |-> 0, errored |-> FALSE ]

\* Mutant: the 'call' handler answers whether or not there is a stream.
canAnswer_Always == TRUE

\* The guard of the 'call' handler: a local stream to answer with.
canAnswer == localStreamRef # 0

\* peer.on('call'): an inbound offer.  Answered at once with the local
\* stream when there is one, refused with a notice otherwise.
InboundOffer(from) ==
    /\ lifecycle = "mounted"
    /\ relay = "open"
    /\ Len(calls) < MaxCalls
    /\ from \in RegisteredIds
    /\ lastEvent' = Event("call", Len(calls) + 1)
    /\ IF canAnswer
         THEN /\ calls' = Append(calls, NewCall("incoming", from, TRUE, TRUE))
              /\ currentCall' = Len(calls) + 1
              /\ isCallActive' = TRUE
              /\ toasts' = << ConnectedTitle(role) >>
         ELSE /\ calls' = Append(calls, NewCall("incoming", from, FALSE, TRUE))
              /\ UNCHANGED << currentCall, isCallActive >>
              /\ toasts' = << "Cannot Answer Call" >>
    /\ UNCHANGED << lifecycle, role, peer, requestedId, relay, peerId, isConnected,
                    remotePeerIdInput, hasRemoteStream, hasCameraPermission,
                    isVideoMuted, isAudioMuted, localStreamRef, localVideoSrc,
                    remoteVideoSrc, capture, captureRequests, videoEnabled,
                    audioEnabled, tracksLive >>

\* ------------------------------------------------------------- call events
\* call.on('stream'): the remote stream of call h arrives; it is shown in
\* the remote video element.
CallStream(h) ==
    /\ lifecycle = "mounted"
    /\ h \in 1..Len(calls)
    /\ Flowing(h)
    /\ lastEvent' = Event("callStream", h)
    /\ hasRemoteStream' = TRUE
    /\ remoteVideoSrc' = h
    /\ toasts' = << >>
    /\ UNCHANGED << lifecycle, role, peer, requestedId, relay, peerId, isConnected,
                    remotePeerIdInput, currentCall, isCallActive, hasCameraPermission,
                    isVideoMuted, isAudioMuted, localStreamRef, localVideoSrc,
                    capture, captureRequests, videoEnabled, audioEnabled, tracksLive,
                    calls >>

\* Mutant: the close handler resets the flags and leaves the remote video
\* element attached to the ended call's stream.
callCloseHandler_KeepsSink ==
    /\ isCallActive' = FALSE
    /\ currentCall' = 0
    /\ hasRemoteStream' = FALSE
    /\ remoteVideoSrc' = remoteVideoSrc
    /\ toasts' = << >>

\* call.on('close'), the same handler for a placed and for an answered
\* call: the session state is reset and the remote video element detached.
callCloseHandler ==
    /\ isCallActive' = FALSE
    /\ currentCall' = 0
    /\ hasRemoteStream' = FALSE
    /\ remoteVideoSrc' = 0
    /\ toasts' = << >>

\* The remote end closes call h.
CallClose(h) ==
    /\ lifecycle = "mounted"
    /\ h \in 1..Len(calls)
    /\ Deliverable(h)
    /\ lastEvent' = Event("callClose", h)
    /\ calls' = [calls EXCEPT ![h].open = FALSE]
    /\ callCloseHandler
    /\ UNCHANGED << lifecycle, role, peer, requestedId, relay, peerId, isConnected,
                    remotePeerIdInput, hasCameraPermission, isVideoMuted, isAudioMuted,
                    localStreamRef, localVideoSrc, capture, captureRequests,
                    videoEnabled, audioEnabled, tracksLive >>

\* The outgoing call's error handler without setCurrentCall(null).
outgoingCallError_KeepsCurrent ==
    /\ isCallActive' = FALSE
    /\ currentCall' = currentCall
    /\ hasRemoteStream' = FALSE
    /\ toasts' = << "Call Failed" >>

\* call.on('error') of a call this client placed (makeCall): the session
\* state is reset and a notice shown; the remote video element is not touched.
outgoingCallError ==
    /\ isCallActive' = FALSE
    /\ currentCall' = 0
    /\ hasRemoteStream' = FALSE
    /\ toasts' = << "Call Failed" >>

\* call.on('error') of a call this client answered (peer.on('call')): a
\* notice, nothing else.
incomingCallError ==
    /\ UNCHANGED << isCallActive, currentCall, hasRemoteStream >>
    /\ toasts' = << "Call Error" >>

\* CallError that also marks the registration as lost.
CallError_Disconnects(h) ==
    /\ lifecycle = "mounted"
    /\ h \in 1..Len(calls)
    /\ Flowing(h)
    /\ lastEvent' = Event("callError", h)
    /\ calls' = [calls EXCEPT ![h].errored = TRUE]
    /\ IF calls[h].dir = "outgoing" THEN outgoingCallError ELSE incomingCallError
    /\ isConnected' = FALSE
    /\ UNCHANGED << lifecycle, role, peer, requestedId, relay, peerId,
                    remotePeerIdInput, hasCameraPermission, isVideoMuted, isAudioMuted,
                    localStreamRef, localVideoSrc, remoteVideoSrc, capture,
                    captureRequests, videoEnabled, audioEnabled, tracksLive >>

CallError(h) ==
    /\ lifecycle = "mounted"
    /\ h \in 1..Len(calls)
    /\ Flowing(h)
    /\ lastEvent' = Event("callError", h)
    /\ calls' = [calls EXCEPT ![h].errored = TRUE]
    /\ IF calls[h].dir = "outgoing" THEN outgoingCallError ELSE incomingCallError
    /\ UNCHANGED << lifecycle, role, peer, requestedId, relay, peerId, isConnected,
                    remotePeerIdInput, hasCameraPermission, isVideoMuted, isAudioMuted,
                    localStreamRef, localVideoSrc, remoteVideoSrc, capture,
                    captureRequests, videoEnabled, audioEnabled, tracksLive >>

\* ------------------------------------------------------------ user commands
\* The identity input, rendered while no call is active.
SetRemotePeerIdInput(v) ==
    /\ lifecycle = "mounted"
    /\ ~isCallActive
    /\ v \in RemoteIds \cup {""}
    /\ v # remotePeerIdInput
    /\ remotePeerIdInput' = v
    /\ toasts' = << >>
    /\ lastEvent' = Event("input", 0)
    /\ UNCHANGED << lifecycle, role, peer, requestedId, relay, peerId, isConnected,
                    currentCall, isCallActive, hasRemoteStream, hasCameraPermission,
                    isVideoMuted, isAudioMuted, localStreamRef, localVideoSrc,
                    remoteVideoSrc, capture, captureRequests, videoEnabled,
                    audioEnabled, tracksLive, calls >>

\* Mutant: the Call button does not wait for the relay's open event.
CallButtonEnabled_NoConnection == ~isCallActive /\ remotePeerIdInput # ""

\* The Call button is rendered while no call is active and is disabled
\* without an identity typed or before the relay's open event.
CallButtonEnabled == ~isCallActive /\ remotePeerIdInput # "" /\ isConnected

\* makeCall's own guard.
makeCallRefused == peer = "null" \/ remotePeerIdInput = "" \/ localStreamRef = 0

\* makeCall, from a click on the Call button.
MakeCall ==
    /\ lifecycle = "mounted"
    /\ CallButtonEnabled
    /\ lastEvent' = Event("makeCall", IF makeCallRefused THEN 0 ELSE Len(calls) + 1)
    /\ IF makeCallRefused
         THEN /\ toasts' = << "Cannot Make Call" >>
              /\ UNCHANGED << calls, currentCall, isCallActive >>
         ELSE /\ Len(calls) < MaxCalls
              /\ calls' = Append(calls,
                     NewCall("outgoing", remotePeerIdInput, TRUE,
                             relay = "open" /\ remotePeerIdInput \in RegisteredIds))
              /\ currentCall' = Len(calls) + 1
              /\ isCallActive' = TRUE
              /\ toasts' = << CallingTitle(role) >>
    /\ UNCHANGED << lifecycle, role, peer, requestedId, relay, peerId, isConnected,
                    remotePeerIdInput, hasRemoteStream, hasCameraPermission,
                    isVideoMuted, isAudioMuted, localStreamRef, localVideoSrc,
                    remoteVideoSrc, capture, captureRequests, videoEnabled,
                    audioEnabled, tracksLive >>

\* The call-session part of the state, as endCall reads and writes it.
Session ==
    [ currentCall |-> currentCall, isCallActive |-> isCallActive,
      hasRemoteStream |-> hasRemoteStream, remoteVideoSrc |-> remoteVideoSrc,
      calls |-> calls, toasts |-> << >> ]

\* Mutant: endCall forgets setCurrentCall(null).
endCall_KeepsCurrent(s) ==
    IF s.currentCall # 0
      THEN [ currentCall |-> s.currentCall, isCallActive |-> FALSE,
             hasRemoteStream |-> FALSE, remoteVideoSrc |-> 0,
             calls |-> [s.calls EXCEPT ![s.currentCall].open = FALSE,
                                       ![s.currentCall].closeCalls = @ + 1],
             toasts |-> << "Call Ended" >> ]
      ELSE [s EXCEPT !.toasts = << >>]

\* endCall that resets the page and leaves the handle open.
endCall_NoClose(s) ==
    IF s.currentCall # 0
      THEN [ currentCall |-> 0, isCallActive |-> FALSE,
             hasRemoteStream |-> FALSE, remoteVideoSrc |-> 0,
             calls |-> s.calls,
             toasts |-> << "Call Ended" >> ]
      ELSE [s EXCEPT !.toasts = << >>]

\* endCall: closes the current call, resets the session, shows a notice;
\* nothing at all without a current call.
endCall(s) ==
    IF s.currentCall # 0
      THEN [ currentCall |-> 0, isCallActive |-> FALSE, hasRemoteStream |-> FALSE,
             remoteVideoSrc |-> 0,
             calls |-> [s.calls EXCEPT ![s.currentCall].open = FALSE,
                                       ![s.currentCall].closeCalls = @ + 1],
             toasts |-> << "Call Ended" >> ]
      ELSE [s EXCEPT !.toasts = << >>]

\* EndCall that also stops the local tracks.
EndCall_StopsTracks ==
    /\ lifecycle = "mounted"
    /\ isCallActive
    /\ lastEvent' = Event("endCall", currentCall)
    /\ LET r == endCall(Session)
       IN /\ currentCall' = r.currentCall
          /\ isCallActive' = r.isCallActive
          /\ hasRemoteStream' = r.hasRemoteStream
          /\ remoteVideoSrc' = r.remoteVideoSrc
          /\ calls' = r.calls
          /\ toasts' = r.toasts
    /\ tracksLive' = FALSE
    /\ UNCHANGED << lifecycle, role, peer, requestedId, relay, peerId, isConnected,
                    remotePeerIdInput, hasCameraPermission, isVideoMuted, isAudioMuted,
                    localStreamRef, localVideoSrc, capture, captureRequests,
                    videoEnabled, audioEnabled >>

\* endCall, from a click on the End button (disabled while no call is active).
EndCall ==
    /\ lifecycle = "mounted"
    /\ isCallActive
    /\ lastEvent' = Event("endCall", currentCall)
    /\ LET r == endCall(Session)
       IN /\ currentCall' = r.currentCall
          /\ isCallActive' = r.isCallActive
          /\ hasRemoteStream' = r.hasRemoteStream
          /\ remoteVideoSrc' = r.remoteVideoSrc
          /\ calls' = r.calls
          /\ toasts' = r.toasts
    /\ UNCHANGED << lifecycle, role, peer, requestedId, relay, peerId, isConnected,
                    remotePeerIdInput, hasCameraPermission, isVideoMuted, isAudioMuted,
                    localStreamRef, localVideoSrc, capture, captureRequests,
                    videoEnabled, audioEnabled, tracksLive >>

\* The local media as the toggles read and write it.
Media ==
    [ stream |-> localStreamRef, videoEnabled |-> videoEnabled,
      audioEnabled |-> audioEnabled, isVideoMuted |-> isVideoMuted,
      isAudioMuted |-> isAudioMuted ]

\* Mutant: toggleVideo mirrors the track's old value in isVideoMuted.
toggleVideo_StaleFlag(m) ==
    IF m.stream # 0
      THEN [m EXCEPT !.videoEnabled = ~m.videoEnabled,
                     !.isVideoMuted = ~m.videoEnabled]
      ELSE m

\* toggleVideo without the check for a local stream.
toggleVideo_NoStreamCheck(m) ==
    [m EXCEPT !.videoEnabled = ~m.videoEnabled,
              !.isVideoMuted = ~(~m.videoEnabled)]

\* toggleVideo: flips the first video track and mirrors it in isVideoMuted.
toggleVideo(m) ==
    IF m.stream # 0
      THEN [m EXCEPT !.videoEnabled = ~m.videoEnabled,
                     !.isVideoMuted = ~(~m.videoEnabled)]
      ELSE m

\* toggleAudio that switches the camera track along with the microphone.
toggleAudio_BothTracks(m) ==
    IF m.stream # 0
      THEN [m EXCEPT !.audioEnabled = ~m.audioEnabled,
                     !.isAudioMuted = ~(~m.audioEnabled),
                     !.videoEnabled = ~m.videoEnabled,
                     !.isVideoMuted = ~(~m.videoEnabled)]
      ELSE m

\* toggleAudio: flips the first audio track and mirrors it in isAudioMuted.
toggleAudio(m) ==
    IF m.stream # 0
      THEN [m EXCEPT !.audioEnabled = ~m.audioEnabled,
                     !.isAudioMuted = ~(~m.audioEnabled)]
      ELSE m

SetMedia(m) ==
    /\ localStreamRef' = m.stream
    /\ videoEnabled' = m.videoEnabled
    /\ audioEnabled' = m.audioEnabled
    /\ isVideoMuted' = m.isVideoMuted
    /\ isAudioMuted' = m.isAudioMuted

\* The toggle buttons are disabled until the camera is granted.
ToggleVideo ==
    /\ lifecycle = "mounted"
    /\ hasCameraPermission = "true"
    /\ SetMedia(toggleVideo(Media))
    /\ toasts' = << >>
    /\ lastEvent' = Event("toggleVideo", 0)
    /\ UNCHANGED << lifecycle, role, peer, requestedId, relay, peerId, isConnected,
                    remotePeerIdInput, currentCall, isCallActive, hasRemoteStream,
                    hasCameraPermission, localVideoSrc, remoteVideoSrc, capture,
                    captureRequests, tracksLive, calls >>

ToggleAudio ==
    /\ lifecycle = "mounted"
    /\ hasCameraPermission = "true"
    /\ SetMedia(toggleAudio(Media))
    /\ toasts' = << >>
    /\ lastEvent' = Event("toggleAudio", 0)
    /\ UNCHANGED << lifecycle, role, peer, requestedId, relay, peerId, isConnected,
                    remotePeerIdInput, currentCall, isCallActive, hasRemoteStream,
                    hasCameraPermission, localVideoSrc, remoteVideoSrc, capture,
                    captureRequests, tracksLive, calls >>

\* ----------------------------------------------------------------- shutdown
\* The doctor page's cleanup destroys the peer it created.  The patient
\* page's cleanup reads the peer state of the first render, which is null.
cleanupDestroysPeer(r) == r = "doctor"

\* Unmount: the cleanups of both effects.  Destroying the peer closes its
\* connections; the camera cleanup stops the tracks of the stream in the ref.
Unmount ==
    /\ lifecycle = "mounted"
    /\ lifecycle' = "unmounted"
    /\ IF cleanupDestroysPeer(role)
         THEN /\ relay' = "destroyed"
              /\ calls' = [h \in 1..Len(calls) |-> [calls[h] EXCEPT !.open = FALSE]]
         ELSE UNCHANGED << relay, calls >>
    /\ tracksLive' = IF localStreamRef # 0 THEN FALSE ELSE tracksLive
    /\ toasts' = << >>
    /\ lastEvent' = Event("unmount", 0)
    /\ UNCHANGED << role, peer, requestedId, peerId, isConnected, remotePeerIdInput,
                    currentCall, isCallActive, hasRemoteStream, hasCameraPermission,
                    isVideoMuted, isAudioMuted, localStreamRef, localVideoSrc,
                    remoteVideoSrc, capture, captureRequests, videoEnabled,
                    audioEnabled >>

\* One client alone: the other end is the environment and far stays as it is.
Next ==
    \/ UNCHANGED far /\ \E id \in GeneratedIds(role), supported \in BOOLEAN : Mount(id, supported)
    \/ UNCHANGED far /\ CameraGranted
    \/ UNCHANGED far /\ CameraDenied
    \/ UNCHANGED far /\ PeerOpen
    \/ UNCHANGED far /\ PeerErrorFatal
    \/ UNCHANGED far /\ \E h \in 1..MaxCalls : PeerErrorUnavailable(h)
    \/ UNCHANGED far /\ \E from \in RegisteredIds : InboundOffer(from)
    \/ UNCHANGED far /\ \E h \in 1..MaxCalls : CallStream(h)
    \/ UNCHANGED far /\ \E h \in 1..MaxCalls : CallClose(h)
    \/ UNCHANGED far /\ \E h \in 1..MaxCalls : CallError(h)
    \/ UNCHANGED far /\ \E v \in RemoteIds \cup {""} : SetRemotePeerIdInput(v)
    \/ UNCHANGED far /\ MakeCall
    \/ UNCHANGED far /\ EndCall
    \/ UNCHANGED far /\ ToggleVideo
    \/ UNCHANGED far /\ ToggleAudio
    \/ UNCHANGED far /\ Unmount

Spec == Init /\ [][Next]_vars

\* ============================================================ two clients
\* A patient client and the doctor client it calls.  The patient is the
\* client of the variables above; the doctor, registered as KnownRemote, is
\* far.  Both run the same handlers; the handlers of far are the operators
\* below, on far's record.  Signals between the two are in flight in
\* far.inbox (towards far) or readable from far's end of a connection
\* (towards this client), and are delivered by steps of their own.

\* The state of this client, everything but far.
client ==
    << lifecycle, role, peer, requestedId, relay, peerId, isConnected,
       remotePeerIdInput, currentCall, isCallActive, hasRemoteStream,
       hasCameraPermission, isVideoMuted, isAudioMuted, localStreamRef,
       localVideoSrc, remoteVideoSrc, capture, captureRequests,
       videoEnabled, audioEnabled, tracksLive, calls, toasts, lastEvent >>

\* far's session as endCall reads and writes it.
farSession(f) ==
    [ currentCall |-> f.currentCall, isCallActive |-> f.isCallActive,
      hasRemoteStream |-> f.hasRemoteStream, remoteVideoSrc |-> f.remoteVideoSrc,
      calls |-> f.calls, toasts |-> << >> ]

farSetSession(f, s) ==
    [f EXCEPT !.currentCall = s.currentCall, !.isCallActive = s.isCallActive,
              !.hasRemoteStream = s.hasRemoteStream,
              !.remoteVideoSrc = s.remoteVideoSrc, !.calls = s.calls]

\* peer.on('call') at far: answered with far's stream if it has one.
farCallHandler(f, h) ==
    IF f.localStream # 0
      THEN [f EXCEPT !.calls[h] = [open |-> TRUE, handlers |-> TRUE, closeCalls |-> 0],
                     !.currentCall = h,
                     !.isCallActive = TRUE]
      ELSE f

\* call.on('stream') at far.
farStreamHandler(f, h) ==
    [f EXCEPT !.hasRemoteStream = TRUE, !.remoteVideoSrc = h]

\* Mutant: far's close handler leaves the session as it is.
farCloseHandler_Ignored(f) == f

\* call.on('close') at far, for an answered call.
farCloseHandler(f) ==
    [f EXCEPT !.isCallActive = FALSE, !.currentCall = 0,
              !.hasRemoteStream = FALSE, !.remoteVideoSrc = 0]

\* Both clients are up: registered, camera granted, idle; the patient has
\* typed the doctor's identity.
PairInit ==
    /\ far = FarInit
    /\ lifecycle = "mounted"
    /\ role = "patient"
    /\ peer = "peer"
    /\ requestedId \in GeneratedIds("patient")
    /\ relay = "open"
    /\ peerId = requestedId
    /\ isConnected = TRUE
    /\ remotePeerIdInput = KnownRemote
    /\ currentCall = 0
    /\ isCallActive = FALSE
    /\ hasRemoteStream = FALSE
    /\ hasCameraPermission = "true"
    /\ isVideoMuted = FALSE
    /\ isAudioMuted = FALSE
    /\ localStreamRef = TheStream
    /\ localVideoSrc = TheStream
    /\ remoteVideoSrc = 0
    /\ capture = "granted"
    /\ captureRequests = 1
    /\ videoEnabled = TRUE
    /\ audioEnabled = TRUE
    /\ tracksLive = TRUE
    /\ calls = << >>
    /\ toasts = << >>
    /\ lastEvent = [name |-> "input", phase |-> "Idle", current |-> FALSE]

\* makeCall here: the offer to KnownRemote is on its way to far.
PlaceOffer ==
    /\ MakeCall
    /\ far' = [far EXCEPT !.inbox = @ \cup {<< "offer", Len(calls) + 1 >>}]

\* The offer reaches far: its 'call' handler runs.
FarAnswer(h) ==
    /\ << "offer", h >> \in far.inbox
    /\ far' = [farCallHandler(far, h) EXCEPT !.inbox = @ \ {<< "offer", h >>},
                                            !.last = "call"]
    /\ UNCHANGED client

\* This client's stream reaches far over a connection open at both ends.
FarStream(h) ==
    /\ h \in 1..Len(calls)
    /\ calls[h].open
    /\ far.calls[h].handlers /\ far.calls[h].open
    /\ far' = [farStreamHandler(far, h) EXCEPT !.last = "stream"]
    /\ UNCHANGED client

\* far's stream reaches this client once far has answered.
NearStream(h) ==
    /\ far.calls[h].handlers /\ far.calls[h].open
    /\ CallStream(h)
    /\ UNCHANGED far

\* endCall here: the close of the handle is signalled to far.
NearEndCall ==
    /\ EndCall
    /\ far' = [far EXCEPT !.inbox = @ \cup {<< "close", currentCall >>}]

\* The close signal reaches far's end of the connection: its close handler runs.
FarClose(h) ==
    /\ << "close", h >> \in far.inbox
    /\ far.calls[h].handlers /\ far.calls[h].open
    /\ far' = [farCloseHandler(far) EXCEPT !.calls[h].open = FALSE,
                                          !.inbox = @ \ {<< "close", h >>},
                                          !.last = "close"]
    /\ UNCHANGED client

\* endCall at far, from its End button.
FarEndCall ==
    /\ far.isCallActive
    /\ far' = [farSetSession(far, endCall(farSession(far))) EXCEPT !.last = "endCall"]
    /\ UNCHANGED client

\* far has closed its end: the close event reaches this client's handle.
NearClose(h) ==
    /\ far.calls[h].handlers /\ ~far.calls[h].open /\ far.calls[h].closeCalls > 0
    /\ CallClose(h)
    /\ UNCHANGED far

\* A transport error on this client's handle.
NearError(h) ==
    /\ CallError(h)
    /\ UNCHANGED far

PairNext ==
    \/ PlaceOffer
    \/ \E h \in 1..MaxCalls : FarAnswer(h)
    \/ \E h \in 1..MaxCalls : FarStream(h)
    \/ \E h \in 1..MaxCalls : NearStream(h)
    \/ NearEndCall
    \/ \E h \in 1..MaxCalls : FarClose(h)
    \/ FarEndCall
    \/ \E h \in 1..MaxCalls : NearClose(h)
    \/ \E h \in 1..MaxCalls : NearError(h)

\* The transport delivers a close signal that stays deliverable.
PairFairness ==
    \A h \in 1..MaxCalls : WF_vars(FarClose(h)) /\ WF_vars(NearClose(h))

PairSpec == PairInit /\ [][PairNext]_vars /\ PairFairness

\* ------------------------------------------------------------------ typing
TypeOK ==
    /\ lifecycle \in {"initial", "mounted", "unmounted"}
    /\ role \in Roles
    /\ relay \in {"none", "connecting", "open", "errored", "destroyed"}
    /\ currentCall \in 0..Len(calls)
    /\ Len(calls) <= MaxCalls
    /\ remoteVideoSrc \in 0..Len(calls)
    /\ localStreamRef \in {0, TheStream}
    /\ captureRequests \in 0..1

\* The calls that are open on this client: placed or answered, not closed.
OpenCalls == {h \in 1..Len(calls) : calls[h].open /\ calls[h].handlers}

\* --------------------------------------------------------------------- C1
\* C1: single-call constraint.  In every reachable state at most one call
\* handle is open (placed or answered and not yet closed), and a step that
\* places or answers a call while the session is not Idle does not happen:
\* a new handle with handlers is only ever created from Idle.
C1_SingleOpenCall ==
    Cardinality(OpenCalls) <= 1

\* --------------------------------------------------------------------- C2
\* C2: an inbound offer that arrives while the local stream is absent is not
\* answered, records no call, leaves the session Idle (isCallActive and
\* hasRemoteStream as they were) and surfaces exactly one notice, "Cannot
\* Answer Call".
C2_NoAnswerWithoutMedia ==
    [][ (lastEvent'.name = "call" /\ localStreamRef = 0) =>
          /\ Len(calls') = Len(calls) + 1
          /\ ~calls'[Len(calls')].handlers
          /\ calls'[Len(calls')].localStream = 0
          /\ OpenCalls' = OpenCalls
          /\ currentCall' = currentCall
          /\ isCallActive' = isCallActive
          /\ hasRemoteStream' = hasRemoteStream
          /\ callPhase = "Idle" /\ callPhase' = "Idle"
          /\ toasts' = << "Cannot Answer Call" >> ]_vars

\* An offer arrived after the camera was denied and was refused.
C2_Witness ==
    /\ lastEvent.name = "call"
    /\ capture = "failed"
    /\ localStreamRef = 0
    /\ Len(calls) > 0
    /\ ~calls[Len(calls)].handlers
    /\ toasts = << "Cannot Answer Call" >>

\* --------------------------------------------------------------------- C3
\* C3: for every sequence of inbound offers received from Idle with local
\* media present, exactly one Call Session is created: the offer that finds
\* the session Idle is answered with the local stream and becomes the
\* current call (Ringing) with the offer's source as remote identity; no
\* second answered call exists beside it; and the session becomes Active
\* only afterwards, on the stream of that same call.
C3_AnsweredFromIdle ==
    [][ (lastEvent'.name = "call" /\ callPhase = "Idle" /\ localStreamRef # 0) =>
          /\ Len(calls') = Len(calls) + 1
          /\ currentCall' = Len(calls')
          /\ calls'[currentCall'].handlers
          /\ calls'[currentCall'].dir = "incoming"
          /\ calls'[currentCall'].localStream = localStreamRef
          /\ \E from \in RegisteredIds :
                ENABLED InboundOffer(from) /\ calls'[currentCall'].peer = from
          /\ callPhase' = "Ringing"
          /\ toasts' = << ConnectedTitle(role) >> ]_vars

AnsweredCalls ==
    {h \in OpenCalls : calls[h].dir = "incoming"}

C3_OneSessionPerOfferSequence ==
    /\ C3_AnsweredFromIdle
    /\ [](Cardinality(AnsweredCalls) <= 1)
    /\ [][ (callPhase # "Active" /\ callPhase' = "Active") =>
             /\ lastEvent'.name = "callStream"
             /\ remoteVideoSrc' = currentCall' ]_vars

\* --------------------------------------------------------------------- C4
\* C4: an errored event on the current call, placed or answered, in any of
\* Offering, Ringing or Active, returns the session to Idle (no current
\* call, isCallActive false, no remote stream) and surfaces a notice.
C4_ErrorReturnsToIdle ==
    [][ (lastEvent'.name = "callError" /\ lastEvent'.current) =>
          /\ currentCall' = 0
          /\ ~isCallActive'
          /\ ~hasRemoteStream'
          /\ callPhase' = "Idle"
          /\ Len(toasts') = 1 ]_vars

\* --------------------------------------------------------------------- C5
\* C5: after callRemote to an unknown identity has moved the session to
\* Offering, the relay's error for that attempt, delivered on the peer's
\* error channel, returns the session to Idle and surfaces a notice.
C5_UnroutableOfferReturnsToIdle ==
    [][ (lastEvent'.name = "peerErrorUnavailable" /\ lastEvent'.current
           /\ lastEvent'.phase = "Offering") =>
          /\ callPhase' = "Idle"
          /\ currentCall' = 0
          /\ Len(toasts') = 1 ]_vars

\* --------------------------------------------------------------------- C6
\* C6: endCall is idempotent.  From any reachable state, successive
\* endCall() calls leave the session Idle; after the first, a further call
\* changes nothing: close() has been invoked at most once, and only on the
\* call that was current, at most one "Call Ended" notice was shown, and no
\* local track is stopped or replaced.
C6_EndCallIdempotent ==
    /\ [] LET r1 == endCall(Session)
              r2 == endCall(r1)
              r3 == endCall(r2)
          IN /\ r1.currentCall = 0 /\ ~r1.isCallActive
             /\ r2 = [r1 EXCEPT !.toasts = << >>]
             /\ r3 = r2
             /\ \A h \in 1..Len(calls) :
                   /\ r3.calls[h].closeCalls <= 1
                   /\ h # currentCall => r3.calls[h] = calls[h]
             /\ Len(r1.toasts) + Len(r2.toasts) + Len(r3.toasts) <= 1
    /\ [][ lastEvent'.name = "endCall" =>
             /\ currentCall # 0
             /\ calls'[currentCall].closeCalls = 1
             /\ ~calls'[currentCall].open
             /\ callPhase' = "Idle" /\ currentCall' = 0
             /\ toasts' = << "Call Ended" >>
             /\ UNCHANGED << localStreamRef, tracksLive, videoEnabled, audioEnabled >> ]_vars

\* A call was ended by endCall: closed once, one notice, the tracks live.
C6_Witness ==
    /\ lastEvent.name = "endCall"
    /\ lastEvent.phase = "Active"
    /\ callPhase = "Idle"
    /\ \E h \in 1..Len(calls) : calls[h].closeCalls = 1
    /\ toasts = << "Call Ended" >>
    /\ tracksLive

\* --------------------------------------------------------------------- C7
\* C7: round trip of the mute toggles.  In any state with a local stream,
\* one toggleVideo flips the video track's enabled flag and the exposed mute
\* flag, a second restores both, and the stream reference is the same
\* throughout; likewise toggleAudio.
C7_ToggleRoundTrip ==
    localStreamRef # 0 =>
      LET v == toggleVideo(Media)
          a == toggleAudio(Media)
      IN /\ v.videoEnabled = ~videoEnabled
         /\ v.isVideoMuted = ~isVideoMuted
         /\ v.stream = localStreamRef
         /\ toggleVideo(v) = Media
         /\ a.audioEnabled = ~audioEnabled
         /\ a.isAudioMuted = ~isAudioMuted
         /\ a.stream = localStreamRef
         /\ toggleAudio(a) = Media

\* The video was toggled and is unmuted again: an even number of toggles.
C7_Witness ==
    /\ lastEvent.name = "toggleVideo"
    /\ localStreamRef = TheStream
    /\ videoEnabled /\ ~isVideoMuted
    /\ ~audioEnabled /\ isAudioMuted

\* --------------------------------------------------------------------- C8
\* C8: a closed event on the current call while it is Active returns the
\* session to Idle with the remote-stream binding cleared (hasRemoteStream
\* false, remote video element detached) and leaves the local stream, its
\* tracks and the local preview as they were, the stream still there for
\* the next call.
C8_RemoteCloseKeepsLocalMedia ==
    [][ (lastEvent'.name = "callClose" /\ lastEvent'.current
           /\ lastEvent'.phase = "Active") =>
          /\ callPhase' = "Idle"
          /\ currentCall' = 0
          /\ ~hasRemoteStream'
          /\ remoteVideoSrc' = 0
          /\ UNCHANGED << localStreamRef, tracksLive, videoEnabled, audioEnabled,
                          localVideoSrc, hasCameraPermission >>
          /\ localStreamRef' = TheStream
          /\ tracksLive'
          /\ canAnswer' ]_vars

\* The remote end closed the current, active call.
C8_Witness ==
    /\ lastEvent = [name |-> "callClose", phase |-> "Active", current |-> TRUE]
    /\ callPhase = "Idle"
    /\ remoteVideoSrc = 0
    /\ localStreamRef = TheStream
    /\ tracksLive

\* --------------------------------------------------------------------- C9
\* C9: in every reachable state a Call Session exists (a current call is
\* recorded or isCallActive is true) only if the relay's open event has been
\* received (isConnected), and no offer was placed before it.
C9_NoSessionBeforeOpen ==
    /\ (currentCall # 0 \/ isCallActive) => isConnected
    /\ isConnected => relay \in {"open", "errored", "destroyed"}
    /\ \A h \in 1..Len(calls) :
          calls[h].dir = "outgoing" => isConnected /\ relay # "connecting"

\* An offer was placed after the relay opened.
C9_Witness ==
    /\ isCallActive
    /\ currentCall # 0
    /\ calls[currentCall].dir = "outgoing"
    /\ isConnected

\* -------------------------------------------------------------------- C10
\* C10: callRemote places an offer and moves Idle to Offering only when the
\* Relay Registration is open, the local stream is present and the remote
\* identity is non-empty; otherwise no offer is placed, no call is recorded
\* and the session stays Idle.
C10_CallRemoteGuard ==
    [][ lastEvent'.name = "makeCall" =>
          IF relay = "open" /\ localStreamRef # 0 /\ remotePeerIdInput # ""
            THEN /\ Len(calls') = Len(calls) + 1
                 /\ calls'[Len(calls')].dir = "outgoing"
                 /\ currentCall' = Len(calls')
                 /\ callPhase = "Idle" /\ callPhase' = "Offering"
            ELSE /\ calls' = calls
                 /\ currentCall' = currentCall
                 /\ callPhase' = "Idle" ]_vars

\* ------------------------------------------------------------------ C11
\* C11: client shutdown stops every track of the local stream on every exit
\* path, including a shutdown while the capture request is still pending and
\* the stream is granted afterwards: after shutdown no granted track is live.
C11_ShutdownStopsTracks ==
    lifecycle = "unmounted" => ~tracksLive

C13_RelayErrorTerminal ==
    /\ [](relay = "errored" => ~isConnected)
    /\ [][relay = "errored" => relay' \in {"errored", "destroyed"}]_vars

\* ------------------------------------------------------------------ C14
\* C14: media acquisition failure is terminal: once the capture request has
\* failed or the browser offers no capture, the camera-permission status is
\* false and the local stream is absent in every later state of the mounted
\* client, and no further capture request is issued.
C14_CaptureFailureTerminal ==
    /\ [](capture \in {"failed", "unsupported"} =>
            /\ localStreamRef = 0
            /\ localVideoSrc = 0
            /\ ~tracksLive
            /\ lifecycle = "mounted" => hasCameraPermission = "false"
            /\ hasCameraPermission # "true")
    /\ [][(capture \in {"failed", "unsupported"}) =>
            /\ capture' = capture
            /\ captureRequests' = captureRequests
            /\ hasCameraPermission \in {"false", hasCameraPermission'}]_vars

\* An inbound offer arrives after the capture request failed.
C14_Witness ==
    /\ capture = "failed"
    /\ lastEvent.name = "call"
    /\ relay = "open"
    /\ hasCameraPermission = "false"
    /\ localStreamRef = 0

\* ------------------------------------------------------------------ C15
\* C15 (as stated): over one client lifetime exactly one capture request is
\* issued, whatever the sequence of events.
C15_ExactlyOneCaptureRequest ==
    lifecycle # "initial" => captureRequests = 1

\* C15 (amended): at most one capture request is issued over a client
\* lifetime, by the mount effect only: exactly one when the browser offers
\* getUserMedia, none when it does not.
C15_AtMostOneCaptureRequest ==
    /\ [](/\ captureRequests <= 1
          /\ lifecycle # "initial" =>
                captureRequests = (IF capture = "unsupported" THEN 0 ELSE 1))
    /\ [][(captureRequests' # captureRequests) => lastEvent'.name = "mount"]_vars

\* A whole session was placed and ended and the request count is still one.
C15_Witness ==
    /\ captureRequests = 1
    /\ capture = "granted"
    /\ lastEvent.name = "endCall"
    /\ Len(calls) > 0

\* ------------------------------------------------------------------ C16
\* What a toggle must leave alone besides the other track.
C16_SessionFrame ==
    << currentCall, isCallActive, hasRemoteStream, remoteVideoSrc, calls, relay,
       isConnected, peer, peerId, requestedId, localStreamRef, localVideoSrc,
       tracksLive, hasCameraPermission, capture, remotePeerIdInput >>

\* C16: toggleLocalVideo and toggleLocalAudio are enabled in every call phase
\* and change only the toggled track's enabled flag and its mute flag: the
\* call phase, the current handle, the remote-stream flag, the registration
\* health and the other track are unchanged and no signaling message is sent.
C16_ToggleFrame ==
    /\ []((lifecycle = "mounted" /\ hasCameraPermission = "true") =>
            (ENABLED ToggleVideo /\ ENABLED ToggleAudio))
    /\ [][ (lastEvent'.name = "toggleVideo") =>
             /\ videoEnabled' = ~videoEnabled
             /\ isVideoMuted' = ~videoEnabled'
             /\ UNCHANGED << audioEnabled, isAudioMuted >>
             /\ UNCHANGED C16_SessionFrame
             /\ callPhase' = callPhase ]_vars
    /\ [][ (lastEvent'.name = "toggleAudio") =>
             /\ audioEnabled' = ~audioEnabled
             /\ isAudioMuted' = ~audioEnabled'
             /\ UNCHANGED << videoEnabled, isVideoMuted >>
             /\ UNCHANGED C16_SessionFrame
             /\ callPhase' = callPhase ]_vars

\* The microphone was muted while an offer was outstanding and the camera had
\* been switched off before: the camera is still off, the offer still out.
C16_Witness ==
    /\ lastEvent.name = "toggleAudio"
    /\ lastEvent.phase = "Offering"
    /\ callPhase = "Offering"
    /\ isAudioMuted /\ ~audioEnabled
    /\ isVideoMuted /\ ~videoEnabled

\* ------------------------------------------------------------------ C17
\* The handlers of the call session: callRemote, an inbound offer, the
\* handle's stream, close and error events, and endCall.
SessionEvents ==
    {"makeCall", "call", "callStream", "callClose", "callError", "endCall"}

\* C17: no call session operation or event stops a local track or replaces
\* the local stream reference; local tracks are stopped only by client
\* shutdown.
C17_SessionKeepsLocalMedia ==
    /\ [][ (lastEvent'.name \in SessionEvents) =>
             UNCHANGED << localStreamRef, tracksLive, localVideoSrc, capture,
                          hasCameraPermission >> ]_vars
    /\ [][ (tracksLive /\ ~tracksLive') => lastEvent'.name = "unmount" ]_vars
    /\ [][ (localStreamRef # 0) => localStreamRef' = localStreamRef ]_vars

\* A call was ended by the user and the local tracks are still live.
C17_Witness ==
    /\ lastEvent.name = "endCall"
    /\ lastEvent.phase = "Active"
    /\ localStreamRef = TheStream
    /\ tracksLive
    /\ localVideoSrc = TheStream

\* ------------------------------------------------------------------ C18
\* C18: no call session event changes the relay registration's health or the
\* client's own identity.
C18_SessionKeepsRegistration ==
    [][ (lastEvent'.name \in SessionEvents) =>
          UNCHANGED << relay, isConnected, peer, peerId, requestedId >> ]_vars

\* An outgoing call failed and the registration is still open under the
\* identity the relay confirmed.
C18_Witness ==
    /\ lastEvent.name = "callError"
    /\ lastEvent.current
    /\ callPhase = "Idle"
    /\ relay = "open"
    /\ isConnected
    /\ peerId = requestedId

\* ------------------------------------------------------------------ C19
\* C19: a remote stream is bound (hasRemoteStream is true or the remote sink
\* holds a stream) only while the session is not Idle, and the bound stream is
\* the one delivered by the current handle; every path back to Idle (closed,
\* errored, endCall) clears both the flag and the sink binding.
C19_RemoteBindingScoped ==
    /\ []((hasRemoteStream \/ remoteVideoSrc # 0) =>
            /\ callPhase # "Idle"
            /\ currentCall # 0
            /\ remoteVideoSrc = currentCall)
    /\ [][ (callPhase # "Idle" /\ callPhase' = "Idle") =>
             (~hasRemoteStream' /\ remoteVideoSrc' = 0) ]_vars

\* The return to Idle alone, on the path through the handle's error event.
C19_ErrorClearsBinding ==
    [][ (lastEvent'.name = "callError" /\ lastEvent'.current
           /\ callPhase # "Idle" /\ callPhase' = "Idle") =>
          (~hasRemoteStream' /\ remoteVideoSrc' = 0) ]_vars

\* ------------------------------------------------------------------ C20
\* C20: events of a handle that is no longer the current call (closed,
\* errored or streamReceived delivered after endCall or after another call
\* has been placed or answered) never change the state of the current
\* session: it is neither reset to Idle nor marked Active by them.
C20_StaleHandleEventsIgnored ==
    [][ (/\ lastEvent'.name \in {"callStream", "callClose", "callError"}
         /\ ~lastEvent'.current
         /\ currentCall # 0) =>
          UNCHANGED << currentCall, isCallActive, hasRemoteStream, remoteVideoSrc >> ]_vars

\* ------------------------------------------------------------------ C21
\* C21: endCall issued while Offering (offer placed, no stream received yet)
\* closes the handle of that attempt and returns the session to Idle, after
\* which a new callRemote is accepted.
C21_EndCallWhileOffering ==
    /\ [][ (lastEvent'.name = "endCall" /\ lastEvent'.phase = "Offering") =>
             /\ callPhase = "Offering"
             /\ currentCall # 0
             /\ calls[currentCall].dir = "outgoing"
             /\ calls[currentCall].open
             /\ ~calls'[currentCall].open
             /\ calls'[currentCall].closeCalls = 1
             /\ callPhase' = "Idle"
             /\ currentCall' = 0
             /\ ~hasRemoteStream'
             /\ remoteVideoSrc' = 0
             /\ toasts' = << "Call Ended" >> ]_vars
    /\ []((lastEvent.name = "endCall" /\ lastEvent.phase = "Offering") =>
            /\ CallButtonEnabled
            /\ ~makeCallRefused
            /\ Len(calls) < MaxCalls => ENABLED MakeCall)

\* An unanswered offer was withdrawn and the Call button is live again.
C21_Witness ==
    /\ lastEvent.name = "endCall"
    /\ lastEvent.phase = "Offering"
    /\ callPhase = "Idle"
    /\ Len(calls) = 1
    /\ ~calls[1].open
    /\ CallButtonEnabled

\* ------------------------------------------------------------------ C22
\* The stream handler on the current handle, in each phase of a session.
C22_StreamMakesActive ==
    [][ (/\ lastEvent'.name = "callStream"
         /\ lastEvent'.current
         /\ lastEvent'.phase \in {"Offering", "Ringing", "Active"}) =>
          /\ callPhase' = "Active"
          /\ hasRemoteStream'
          /\ currentCall' = currentCall
          /\ remoteVideoSrc' = currentCall ]_vars

\* No remote stream outside a session, and no jump from Idle to Active.
C22_ActiveOnlyAfterOffer ==
    /\ [](hasRemoteStream => callPhase = "Active")
    /\ [][ (callPhase' = "Active") =>
             callPhase \in {"Offering", "Ringing", "Active"} ]_vars

\* C22: a stream event on the current handle while Offering or Ringing makes
\* the session Active with the remote stream bound; the session never
\* becomes Active (hasRemoteStream true) without having been Offering or
\* Ringing first, and a repeated stream event on the same handle leaves it
\* Active.
C22_StreamReceived ==
    C22_StreamMakesActive /\ C22_ActiveOnlyAfterOffer

\* ------------------------------------------------------------------ C23
\* C23: on client shutdown the relay registration is torn down (the
\* signaling peer is destroyed) in both the doctor client and the patient
\* client, whatever state the client is in when it stops.
C23_ShutdownDestroysPeer ==
    lifecycle = "unmounted" => relay = "destroyed"

\* ------------------------------------------------------------------ C24
\* C24: the doctor client and the patient client run the same call session
\* state machine: for every sequence of events both reach the same observable
\* state and perform the same effects, differing only in role prefix and
\* notice text.  Stated for the one handler of the model whose outcome reads
\* the role beyond identity prefix and notice text, the shutdown: the
\* registration after the step is what either role's cleanup leaves.
C24_RolesEquivalent ==
    [][ (lastEvent'.name = "unmount") =>
          \A r \in Roles :
             /\ relay' = (IF cleanupDestroysPeer(r) THEN "destroyed" ELSE relay)
             /\ \A h \in 1..Len(calls) :
                   calls'[h].open = (calls[h].open /\ ~cleanupDestroysPeer(r)) ]_vars

\* ------------------------------------------------------------------ C25
\* C25: the client's own identity is generated once at client start and is
\* immutable: once the exposed identity is non-empty it never changes, and it
\* equals the identity requested at registration.
C25_IdentityImmutable ==
    /\ [](peerId # "" => (peerId = requestedId /\ peerId \in GeneratedIds(role)))
    /\ [][ (peerId # "") => peerId' = peerId ]_vars
    /\ [][ (requestedId # "") => requestedId' = requestedId ]_vars

\* The identity is still the confirmed one after the relay connection failed
\* and a call was placed and ended.
C25_Witness ==
    /\ peerId # ""
    /\ peerId = requestedId
    /\ relay = "errored"
    /\ lastEvent.name = "endCall"

\* ------------------------------------------------------------------ C26
\* C26: in every reachable state the recorded current handle is non-null
\* exactly when isCallActive is true; every operation and callback that sets
\* one sets the other consistently.
C26_CurrentCallIffActive ==
    /\ []((currentCall # 0) <=> isCallActive)
    /\ [](currentCall \in 0..Len(calls))
    /\ [][ (currentCall' # currentCall \/ isCallActive' # isCallActive) =>
             /\ (currentCall' # 0) <=> isCallActive'
             /\ lastEvent'.name \in SessionEvents \ {"callStream"} ]_vars

\* An unanswered outgoing call failed: the error handler cleared both.
C26_Witness ==
    /\ lastEvent.name = "callError"
    /\ lastEvent.current
    /\ lastEvent.phase = "Offering"
    /\ currentCall = 0
    /\ ~isCallActive

\* ------------------------------------------------------------------ C27
\* C27: after any sequence of toggles the exposed mute flags mirror the
\* tracks: isVideoMuted is the negation of the first video track's enabled
\* flag and isAudioMuted the negation of the first audio track's, starting
\* from unmuted tracks and both flags false; with no local stream the toggles
\* change nothing.
C27_MuteFlagsMirrorTracks ==
    /\ isVideoMuted = ~videoEnabled
    /\ isAudioMuted = ~audioEnabled
    /\ capture # "granted" => (videoEnabled /\ audioEnabled)
    /\ toggleVideo(Media).isVideoMuted = ~toggleVideo(Media).videoEnabled
    /\ toggleAudio(Media).isAudioMuted = ~toggleAudio(Media).audioEnabled
    /\ localStreamRef = 0 => (toggleVideo(Media) = Media /\ toggleAudio(Media) = Media)

\* Both buttons were used an odd number of times, the microphone last.
C27_Witness ==
    /\ lastEvent.name = "toggleAudio"
    /\ isVideoMuted /\ ~videoEnabled
    /\ isAudioMuted /\ ~audioEnabled
    /\ callPhase = "Idle"
    /\ calls = << >>

\* ------------------------------------------------------------------ C28
\* far is idle and its remote video element is detached.
FarIdle ==
    /\ ~far.isCallActive
    /\ far.currentCall = 0
    /\ ~far.hasRemoteStream
    /\ far.remoteVideoSrc = 0

\* This client is idle and its remote video element is detached.
NearIdle ==
    /\ callPhase = "Idle"
    /\ currentCall = 0
    /\ ~hasRemoteStream
    /\ remoteVideoSrc = 0

\* C28: two clients: when one peer of a call invokes endCall it returns to
\* Idle in that step without waiting for any acknowledgment and, provided
\* the transport delivers the termination signal (fairness), the other peer
\* eventually returns to Idle with its remote-stream binding cleared.
C28_EndCallReachesBothPeers ==
    /\ [][ (client' # client /\ lastEvent'.name = "endCall") =>
             /\ NearIdle'
             /\ ~calls'[currentCall].open
             /\ farSession(far') = farSession(far) ]_vars
    /\ [][ (far'.calls # far.calls /\ far'.last = "endCall") =>
             /\ FarIdle'
             /\ ~far'.calls[far.currentCall].open
             /\ UNCHANGED client ]_vars
    /\ \A h \in 1..MaxCalls :
          (<< "close", h >> \in far.inbox /\ far.currentCall = h /\ far.calls[h].open)
             ~> FarIdle
    /\ \A h \in 1..MaxCalls :
          (/\ far.calls[h].handlers /\ ~far.calls[h].open /\ far.calls[h].closeCalls > 0
           /\ currentCall = h /\ calls[h].open)
             ~> NearIdle

\* This client ended an active call and far, which had the remote stream
\* bound, is back to idle after the close signal.
C28_Witness ==
    /\ lastEvent.name = "endCall"
    /\ lastEvent.phase = "Active"
    /\ NearIdle
    /\ far.last = "close"
    /\ FarIdle
    /\ Len(calls) = 1
    /\ ~calls[1].open /\ ~far.calls[1].open
    /\ far.inbox = {}

====
